---- MODULE Spec2Model ----
(***************************************************************************)
(* Chlorine (src/main.rs): the image browser's application state           *)
(* (ImageSearchApp), its filter engine (update_filtered_images), its       *)
(* thumbnail cache (load_image_texture and the decode threads it spawns),  *)
(* the catalog loader (load_image_data) and the clipboard export           *)
(* (copy_image_to_clipboard), as driven by the egui frame handler update.  *)
(*                                                                         *)
(* Strings that the program inspects character by character (file names,  *)
(* category names, the search query) are sequences of one-character        *)
(* strings.  A full_path is only ever compared for equality and used as a  *)
(* map key, so it is a path identifier (a natural number).  An Option is   *)
(* a sequence of length 0 (None) or 1 (Some).                              *)
(***************************************************************************)
EXTENDS Integers, Sequences, FiniteSets, TLC

\* ------------------------------------------------------------------------
\* Strings
\* ------------------------------------------------------------------------

\* The printable ASCII characters in code order, from 32 (space) to 126.  The
\* double quote, the backslash and the backtick are spelled out.
Ascii ==
  << " ", "!", "DQUOTE", "#", "$", "%", "&", "'", "(", ")", "*", "+",
     ",", "-", ".", "/", "0", "1", "2", "3", "4", "5", "6", "7",
     "8", "9", ":", ";", "<", "=", ">", "?", "@", "A", "B", "C",
     "D", "E", "F", "G", "H", "I", "J", "K", "L", "M", "N", "O",
     "P", "Q", "R", "S", "T", "U", "V", "W", "X", "Y", "Z", "[",
     "BACKSLASH", "]", "^", "_", "BACKTICK", "a", "b", "c", "d", "e", "f", "g",
     "h", "i", "j", "k", "l", "m", "n", "o", "p", "q", "r", "s",
     "t", "u", "v", "w", "x", "y", "z", "{", "|", "}", "~" >>

\* The byte value of each character: CodeTable[Ascii[i]] = 31 + i.
CodeTable ==
  " " :> 32 @@ "!" :> 33 @@ "DQUOTE" :> 34 @@ "#" :> 35 @@ "$" :> 36 @@ "%" :> 37 @@
  "&" :> 38 @@ "'" :> 39 @@ "(" :> 40 @@ ")" :> 41 @@ "*" :> 42 @@ "+" :> 43 @@
  "," :> 44 @@ "-" :> 45 @@ "." :> 46 @@ "/" :> 47 @@ "0" :> 48 @@ "1" :> 49 @@
  "2" :> 50 @@ "3" :> 51 @@ "4" :> 52 @@ "5" :> 53 @@ "6" :> 54 @@ "7" :> 55 @@
  "8" :> 56 @@ "9" :> 57 @@ ":" :> 58 @@ ";" :> 59 @@ "<" :> 60 @@ "=" :> 61 @@
  ">" :> 62 @@ "?" :> 63 @@ "@" :> 64 @@ "A" :> 65 @@ "B" :> 66 @@ "C" :> 67 @@
  "D" :> 68 @@ "E" :> 69 @@ "F" :> 70 @@ "G" :> 71 @@ "H" :> 72 @@ "I" :> 73 @@
  "J" :> 74 @@ "K" :> 75 @@ "L" :> 76 @@ "M" :> 77 @@ "N" :> 78 @@ "O" :> 79 @@
  "P" :> 80 @@ "Q" :> 81 @@ "R" :> 82 @@ "S" :> 83 @@ "T" :> 84 @@ "U" :> 85 @@
  "V" :> 86 @@ "W" :> 87 @@ "X" :> 88 @@ "Y" :> 89 @@ "Z" :> 90 @@ "[" :> 91 @@
  "BACKSLASH" :> 92 @@ "]" :> 93 @@ "^" :> 94 @@ "_" :> 95 @@ "BACKTICK" :> 96 @@ "a" :> 97 @@
  "b" :> 98 @@ "c" :> 99 @@ "d" :> 100 @@ "e" :> 101 @@ "f" :> 102 @@ "g" :> 103 @@
  "h" :> 104 @@ "i" :> 105 @@ "j" :> 106 @@ "k" :> 107 @@ "l" :> 108 @@ "m" :> 109 @@
  "n" :> 110 @@ "o" :> 111 @@ "p" :> 112 @@ "q" :> 113 @@ "r" :> 114 @@ "s" :> 115 @@
  "t" :> 116 @@ "u" :> 117 @@ "v" :> 118 @@ "w" :> 119 @@ "x" :> 120 @@ "y" :> 121 @@
  "z" :> 122 @@ "{" :> 123 @@ "|" :> 124 @@ "}" :> 125 @@ "~" :> 126

Code(c) == CodeTable[c]

\* char::to_lowercase on ASCII: 'A'..'Z' (65..90) move to 'a'..'z'.
LowerChar(c) == IF Code(c) >= 65 /\ Code(c) <= 90 THEN Ascii[Code(c) + 32 - 31] ELSE c

\* A lower-casing that keeps the letters as they are.
KeepCase(s) == s

\* str::to_lowercase
ToLowercase(s) == [i \in 1..Len(s) |-> LowerChar(s[i])]

\* str::starts_with
StartsWith(s, p) == Len(p) <= Len(s) /\ SubSeq(s, 1, Len(p)) = p

\* str::contains
Contains(s, p) == \E i \in 0..(Len(s) - Len(p)) : SubSeq(s, i + 1, i + Len(p)) = p

\* Ord for String: lexicographic on the bytes; -1 Less, 0 Equal, 1 Greater.
\* The comparison from the byte at index i on.
RECURSIVE StrCmpFrom(_, _, _)
StrCmpFrom(a, b, i) ==
  IF i > Len(a) /\ i > Len(b) THEN 0
  ELSE IF i > Len(a) THEN -1
  ELSE IF i > Len(b) THEN 1
  ELSE IF Code(a[i]) < Code(b[i]) THEN -1
  ELSE IF Code(a[i]) > Code(b[i]) THEN 1
  ELSE StrCmpFrom(a, b, i + 1)

StrCmp(a, b) == StrCmpFrom(a, b, 1)

\* ------------------------------------------------------------------------
\* Data
\* ------------------------------------------------------------------------

None == <<>>
Some(x) == <<x>>

\* struct ImageInfo.  relative_path, extension and size are only displayed
\* and never read by the operations modelled here.
ImageInfo(filename, full_path) == [filename |-> filename, full_path |-> full_path]

\* The sentinel entry of the category selector.
AllCategories == <<"A", "l", "l", " ", "C", "a", "t", "e", "g", "o", "r", "i", "e", "s">>

\* All the sequences that list each element of the finite set S once: the
\* orders in which a HashMap over the keys S may be iterated.
Orders(S) == {o \in [1..Cardinality(S) -> S] : \A x \in S : \E i \in DOMAIN o : o[i] = x}

\* ------------------------------------------------------------------------
\* Filter engine
\* ------------------------------------------------------------------------

\* The variant of the match that forgets the category clause.
MatchesSearchNoCategory(query, category_name, filename) ==
  \/ query = <<>>
  \/ StartsWith(ToLowercase(filename), ToLowercase(query))
  \/ Contains(ToLowercase(filename), ToLowercase(query))

\* matches_search
MatchesSearch(query, category_name, filename) ==
  \/ query = <<>>
  \/ StartsWith(ToLowercase(filename), ToLowercase(query))
  \/ Contains(ToLowercase(filename), ToLowercase(query))
  \/ Contains(ToLowercase(category_name), ToLowercase(query))

\* The comparator of the sort: category, then filename.
PairCmp(a, b) ==
  LET by_category == StrCmp(a[1], b[1]) IN
  IF by_category # 0 THEN by_category ELSE StrCmp(a[2].filename, b[2].filename)

\* slice::sort_by is a stable sort: x goes after every element not greater.
\* The index at which x goes into sorted, looking from index i on.
RECURSIVE InsertAt(_, _, _)
InsertAt(sorted, x, i) ==
  IF i > Len(sorted) THEN i
  ELSE IF PairCmp(x, sorted[i]) < 0 THEN i
  ELSE InsertAt(sorted, x, i + 1)

InsertSorted(sorted, x) ==
  LET at == InsertAt(sorted, x, 1) IN
  SubSeq(sorted, 1, at - 1) \o <<x>> \o SubSeq(sorted, at, Len(sorted))

\* A sort that leaves the list as it was pushed.
Unsorted(list) == list

RECURSIVE SortBy(_)
SortBy(list) ==
  IF list = <<>> THEN <<>>
  ELSE LET front == SortBy(SubSeq(list, 1, Len(list) - 1)) IN
       InsertSorted(front, list[Len(list)])

\* The scope test of the outer loop.
InScope(show_all, selected, category_name) == show_all \/ selected = category_name

\* The pairs pushed for one category, in the order of its images.
RECURSIVE PushCategory(_, _, _)
PushCategory(query, category_name, images) ==
  IF images = <<>> THEN <<>>
  ELSE (IF MatchesSearch(query, category_name, Head(images).filename)
          THEN << <<category_name, Head(images)>> >> ELSE <<>>)
       \o PushCategory(query, category_name, Tail(images))

\* The pairs pushed by the loops, the categories visited in the order `order`.
RECURSIVE PushAll(_, _, _, _, _)
PushAll(categories, order, query, show_all, selected) ==
  IF order = <<>> THEN <<>>
  ELSE (IF InScope(show_all, selected, Head(order))
          THEN PushCategory(query, Head(order), categories[Head(order)]) ELSE <<>>)
       \o PushAll(categories, Tail(order), query, show_all, selected)

\* update_filtered_images: the new filtered_images.  `data` is image_data,
\* `old` the list before the call, `order` the HashMap's iteration order.
UpdateFilteredImages(data, old, order, query, show_all, selected) ==
  IF data = None THEN old
  ELSE SortBy(PushAll(data[1], order, query, show_all, selected))

\* ------------------------------------------------------------------------
\* State
\* ------------------------------------------------------------------------

VARIABLES
  \* struct ImageSearchApp (settings and show_settings only drive the theme
  \* and the settings window, and are left out)
  image_data,           \* Option<ImageData>: None or Some(category -> images)
  search_query,         \* String
  selected_category,    \* String
  filtered_images,      \* Vec<(String, ImageInfo)>
  selected_image,       \* Option<(String, ImageInfo)>
  show_all_categories,  \* bool
  loaded_textures,      \* HashMap<String, TextureHandle>: path -> handle
  loading_promises,     \* HashMap<String, Promise<..>>: path -> promise.ready()
  failed_images,        \* HashSet<String>
  status_message,       \* [kind, arg]: the message's format string and number
  \* the world the program runs in
  next_texture,         \* the id egui's ctx.load_texture gives the next texture
  disk_catalog,         \* image_list.json: [readable, json]
  fs,                   \* path -> what the file at that path is
  fs_events,            \* how many times the files have been changed so far
  \* history, read by the properties only
  spawned,              \* path -> the number of decode threads spawned for it
  uploads,              \* path -> the number of ctx.load_texture calls for it
  fail_inserts,         \* path -> the number of failed_images.insert calls for it
  missing_at_spawn,     \* the paths whose file was missing when their thread was spawned
  missing_at_probe,     \* the paths whose file was missing when their thread looked for it
  acquired,             \* the paths passed to load_image_texture so far
  first_ret,            \* path -> what the call that resolved it returned
  last_call,            \* None, or Some of the last load_image_texture call's record
  peak_outstanding,     \* the most entries loading_promises has had after any call
  call_log,             \* the records of the calls of the last row, window or frame drawn
  frame_calls,          \* the paths update passed to load_image_texture in the last whole frame
  frame_from_empty,     \* whether the three tables were empty when that frame began
  frame_tick,           \* flips with every whole frame
  selector_entry,       \* the entry last clicked in the category selector: None is the sentinel's
  last_copy             \* None, or Some of the last copy_image_to_clipboard call's record

AppVars == <<image_data, search_query, selected_category, filtered_images, selected_image,
             show_all_categories, status_message>>
CacheVars == <<loaded_textures, loading_promises, failed_images, next_texture, spawned, uploads,
               fail_inserts, missing_at_spawn, acquired, first_ret, last_call,
               peak_outstanding, call_log>>
FrameVars == <<frame_calls, frame_from_empty, frame_tick>>
WorldVars == <<disk_catalog, fs, fs_events>>
HistoryVars == <<selector_entry, missing_at_probe, last_copy>>
vars == <<AppVars, CacheVars, FrameVars, WorldVars, HistoryVars>>

\* ------------------------------------------------------------------------
\* Thumbnail cache
\* ------------------------------------------------------------------------

MAX_CONCURRENT_LOADS == 10

\* An insert that also enters the next path, ahead of its first use.
MapInsertAhead(m, k, v) == [x \in DOMAIN m \cup {k, k + 1} |-> IF x \in {k, k + 1} THEN v ELSE m[x]]

\* HashMap::insert and HashMap::remove
MapInsert(m, k, v) == [x \in DOMAIN m \cup {k} |-> IF x = k THEN v ELSE m[x]]
MapRemove(m, k) == [x \in DOMAIN m \ {k} |-> m[x]]

\* A resolution that forgets to remove the promise.
KeepPromise(promises, path) == promises

\* self.loading_promises.remove(&path)
RemovePromise(promises, path) == MapRemove(promises, path)

\* A failure check that never finds the path.
FailedBeforeNever(failed, path) == FALSE

\* self.failed_images.contains(&path)
FailedBefore(failed, path) == path \in failed

\* A ceiling test that counts only the promises whose threads are running.
AtCeilingRunningOnly(promises) ==
  Cardinality({p \in DOMAIN promises : promises[p] = None}) >= MAX_CONCURRENT_LOADS

\* A ceiling test that is off by one.
AtCeilingOffByOne(promises) == Cardinality(DOMAIN promises) > MAX_CONCURRENT_LOADS

\* self.loading_promises.len() >= MAX_CONCURRENT_LOADS
AtCeiling(promises) == Cardinality(DOMAIN promises) >= MAX_CONCURRENT_LOADS

\* A promise that has not resolved: promise.ready() is None.
Running == None

\* ctx.load_texture(&path, color_image, ..): a new texture under the next id.
LoadTexture(id, path, color_image) == [id |-> id, name |-> path, image |-> color_image]

\* load_image_texture, as a function of the three tables, the context's next
\* texture id and the path.  It gives the tables and the id after the call,
\* the value returned, and what the call did: spawn a decode thread, upload
\* a texture, insert into failed_images, request a repaint.
LoadImageTexture(textures, promises, failed, tex_id, path) ==
  LET same == [loaded_textures |-> textures, loading_promises |-> promises,
               failed_images |-> failed, next_texture |-> tex_id, ret |-> None,
               spawn |-> FALSE, upload |-> FALSE, fail |-> FALSE, repaint |-> FALSE]
  IN
  IF path \in DOMAIN textures THEN
    [same EXCEPT !.ret = Some(textures[path])]
  ELSE IF FailedBefore(failed, path) THEN
    same
  ELSE IF path \in DOMAIN promises THEN
    IF promises[path] # Running THEN
      LET result == promises[path][1] IN
      IF result # None THEN
        LET texture == LoadTexture(tex_id, path, result[1]) IN
        [same EXCEPT !.loaded_textures = MapInsert(textures, path, texture),
                     !.loading_promises = RemovePromise(promises, path),
                     !.next_texture = tex_id + 1,
                     !.upload = TRUE,
                     !.ret = Some(texture)]
      ELSE
        [same EXCEPT !.loading_promises = RemovePromise(promises, path),
                     !.failed_images = failed \cup {path},
                     !.fail = TRUE]
    ELSE
      [same EXCEPT !.repaint = TRUE]
  ELSE IF AtCeiling(promises) THEN
    same
  ELSE
    [same EXCEPT !.loading_promises = MapInsert(promises, path, Running),
                 !.spawn = TRUE,
                 !.repaint = TRUE]

\* What the file at a path can be: missing, unreadable, not an image, an image
\* that is not RGBA8, an RGBA8 image, or a FIFO with no writer, which exists
\* and on which fs::read waits without end.
FileKinds == {"missing", "unreadable", "corrupt", "rgb", "rgba", "fifo"}

\* A closure that goes on to read a file it did not find.
DecodeResultNoProbe(kind, path) ==
  IF kind = "unreadable" THEN None
  ELSE IF kind = "corrupt" THEN None
  ELSE Some(path)

\* The closure run by the decode thread, on the file as it is when the thread
\* looks at it: Path::exists, fs::read, image::load_from_memory (each failure
\* gives None), then thumbnail and to_rgba8, which convert every decoded
\* image.  The bitmap is named by the path it was decoded from.
DecodeResult(kind, path) ==
  IF kind = "missing" THEN None
  ELSE IF kind = "unreadable" THEN None
  ELSE IF kind = "corrupt" THEN None
  ELSE Some(path)

\* The state of a path in the cache.
StateOf(textures, promises, failed, path) ==
  IF path \in DOMAIN textures THEN "Ready"
  ELSE IF path \in failed THEN "Failed"
  ELSE IF path \in DOMAIN promises THEN "Pending"
  ELSE "Absent"

\* The cache and its history as one record, and one call's effect on it.
Cache ==
  [loaded_textures |-> loaded_textures, loading_promises |-> loading_promises,
   failed_images |-> failed_images, next_texture |-> next_texture, spawned |-> spawned,
   uploads |-> uploads, fail_inserts |-> fail_inserts, missing_at_spawn |-> missing_at_spawn,
   acquired |-> acquired, first_ret |-> first_ret, last_call |-> last_call,
   peak_outstanding |-> peak_outstanding, call_log |-> call_log]

\* The cache as update finds it when it starts to draw: no call logged yet.
Fresh == [Cache EXCEPT !.call_log = <<>>]

Bump(counts, path, yes) == IF yes THEN [counts EXCEPT ![path] = @ + 1] ELSE counts

\* One call load_image_texture(ctx, image_info) with image_info.full_path = path.
Call(c, files, path) ==
  LET r == LoadImageTexture(c.loaded_textures, c.loading_promises, c.failed_images,
                            c.next_texture, path)
      before == StateOf(c.loaded_textures, c.loading_promises, c.failed_images, path)
      record ==
        [path |-> path, before |-> before, ret |-> r.ret, spawn |-> r.spawn,
         upload |-> r.upload, fail |-> r.fail, repaint |-> r.repaint,
         outstanding |-> Cardinality(DOMAIN c.loading_promises),
         promise |-> IF path \in DOMAIN c.loading_promises
                       THEN Some(c.loading_promises[path]) ELSE None,
         ready_after |-> path \in DOMAIN r.loaded_textures,
         pending_after |-> path \in DOMAIN r.loading_promises,
         failed_after |-> path \in r.failed_images,
         changed |-> \/ r.loaded_textures # c.loaded_textures
                     \/ r.loading_promises # c.loading_promises
                     \/ r.failed_images # c.failed_images]
  IN
  [loaded_textures |-> r.loaded_textures,
   loading_promises |-> r.loading_promises,
   failed_images |-> r.failed_images,
   next_texture |-> r.next_texture,
   spawned |-> Bump(c.spawned, path, r.spawn),
   uploads |-> Bump(c.uploads, path, r.upload),
   fail_inserts |-> Bump(c.fail_inserts, path, r.fail),
   missing_at_spawn |-> IF r.spawn /\ files[path] = "missing"
                          THEN c.missing_at_spawn \cup {path} ELSE c.missing_at_spawn,
   acquired |-> c.acquired \cup {path},
   first_ret |-> IF r.upload \/ r.fail THEN MapInsert(c.first_ret, path, r.ret) ELSE c.first_ret,
   last_call |-> Some(record),
   call_log |-> Append(c.call_log, record),
   peak_outstanding |-> IF Cardinality(DOMAIN r.loading_promises) > c.peak_outstanding
                          THEN Cardinality(DOMAIN r.loading_promises) ELSE c.peak_outstanding]

SetCache(c) ==
  /\ loaded_textures' = c.loaded_textures
  /\ loading_promises' = c.loading_promises
  /\ failed_images' = c.failed_images
  /\ next_texture' = c.next_texture
  /\ spawned' = c.spawned
  /\ uploads' = c.uploads
  /\ fail_inserts' = c.fail_inserts
  /\ missing_at_spawn' = c.missing_at_spawn
  /\ acquired' = c.acquired
  /\ first_ret' = c.first_ret
  /\ last_call' = c.last_call
  /\ peak_outstanding' = c.peak_outstanding
  /\ call_log' = c.call_log

\* The calls of one frame, in order.
RECURSIVE CallAll(_, _, _)
CallAll(c, files, paths) ==
  IF paths = <<>> THEN c ELSE CallAll(Call(c, files, Head(paths)), files, Tail(paths))

\* ------------------------------------------------------------------------
\* Catalog loader and clipboard export
\* ------------------------------------------------------------------------

Status(kind, arg) == [kind |-> kind, arg |-> arg]

\* A loader that forgets the catalog and the list when the load fails.
LoadImageDataClearing(disk, order, data, filtered, status, query, show_all, selected) ==
  IF disk.readable /\ disk.json # None THEN
    [image_data |-> Some(disk.json[1]),
     filtered_images |-> UpdateFilteredImages(Some(disk.json[1]), filtered, order, query,
                                              show_all, selected),
     status_message |-> Status("Loaded {} categories", Cardinality(DOMAIN disk.json[1]))]
  ELSE
    [image_data |-> None, filtered_images |-> <<>>,
     status_message |-> Status("Error parsing JSON: {}", 0)]

\* load_image_data: image_data, filtered_images and status_message after the
\* call.  `disk` is image_list.json ([readable, json], json None when it does
\* not parse), `order` the iteration order of the loaded map.
LoadImageData(disk, order, data, filtered, status, query, show_all, selected) ==
  IF disk.readable THEN
    IF disk.json # None THEN
      [image_data |-> Some(disk.json[1]),
       filtered_images |-> UpdateFilteredImages(Some(disk.json[1]), filtered, order, query,
                                                show_all, selected),
       status_message |-> Status("Loaded {} categories", Cardinality(DOMAIN disk.json[1]))]
    ELSE
      [image_data |-> data, filtered_images |-> filtered,
       status_message |-> Status("Error parsing JSON: {}", 0)]
  ELSE
    [image_data |-> data, filtered_images |-> filtered,
     status_message |-> Status("Error: Could not read image_list.json from: {}", 0)]

\* What arboard does for one copy.
ClipboardKinds == {"ok", "unavailable", "rejected"}

\* copy_image_to_clipboard: status_message after the call.  `kind` is the file
\* at image_info.full_path, `clipboard` what the clipboard does.
CopyImageToClipboard(status, kind, path, clipboard) ==
  IF kind # "missing" THEN
    IF kind # "unreadable" THEN
      IF kind # "corrupt" THEN
        IF kind = "rgba" THEN
          IF clipboard # "unavailable" THEN
            IF clipboard = "ok" THEN Status("Copied {} to clipboard", path)
            ELSE Status("Failed to copy to clipboard: {}", 0)
          ELSE Status("Failed to access clipboard: {}", 0)
        ELSE status
      ELSE status
    ELSE Status("Image file not found: {}", path)
  ELSE status

\* A status that no assignment of the program produces.
Unset == Status("", 0)

\* The record of one copy_image_to_clipboard call: whether the image reached
\* the clipboard, and whether the call assigned status_message.
CopyRecord(kind, path, clipboard) ==
  [ok |-> CopyImageToClipboard(Unset, kind, path, clipboard).kind = "Copied {} to clipboard",
   wrote |-> CopyImageToClipboard(Unset, kind, path, clipboard) # Unset,
   message |-> CopyImageToClipboard(Unset, kind, path, clipboard).kind]

\* ------------------------------------------------------------------------
\* Operations
\* ------------------------------------------------------------------------

\* The categories of the loaded catalog.
CategoryNames == IF image_data = None THEN {} ELSE DOMAIN image_data[1]

PathOf(pair) == pair[2].full_path

\* update, the list: load_image_texture for one visible row.
RenderRow(i) ==
  /\ i \in 1..Len(filtered_images)
  /\ \E c \in {Call(Fresh, fs, PathOf(filtered_images[i]))} : SetCache(c)
  /\ UNCHANGED <<AppVars, FrameVars, WorldVars, HistoryVars>>

\* update, the details window: load_image_texture for the selected image.
RenderDetails ==
  /\ selected_image # None
  /\ \E c \in {Call(Fresh, fs, PathOf(selected_image[1]))} : SetCache(c)
  /\ UNCHANGED <<AppVars, FrameVars, WorldVars, HistoryVars>>

\* update, as a whole frame that shows the rows lo..hi and then the details
\* window: the calls it makes, in order.
FramePaths(lo, hi) ==
  [i \in 1..(hi - lo + 1) |-> PathOf(filtered_images[lo + i - 1])]
  \o (IF selected_image # None THEN <<PathOf(selected_image[1])>> ELSE <<>>)

RenderFrame(lo, hi) ==
  /\ lo \in 1..(Len(filtered_images) + 1)
  /\ hi \in (lo - 1)..Len(filtered_images)
  /\ \E c \in {CallAll(Fresh, fs, FramePaths(lo, hi))} : SetCache(c)
  /\ frame_calls' = FramePaths(lo, hi)
  /\ frame_tick' = ~frame_tick
  /\ frame_from_empty' = (/\ DOMAIN loaded_textures = {}
                          /\ DOMAIN loading_promises = {}
                          /\ failed_images = {})
  /\ UNCHANGED <<AppVars, WorldVars, HistoryVars>>

\* The decode thread of a path runs its closure and resolves the promise.  It
\* looks at the file once; a thread that reads a FIFO does not return.
DecodeTask(path) ==
  /\ path \in DOMAIN loading_promises
  /\ loading_promises[path] = Running
  /\ fs[path] # "fifo"
  /\ loading_promises' = [loading_promises EXCEPT ![path] = Some(DecodeResult(fs[path], path))]
  /\ missing_at_probe' = IF fs[path] = "missing"
                            THEN missing_at_probe \cup {path} ELSE missing_at_probe
  /\ UNCHANGED <<AppVars, FrameVars, WorldVars, selector_entry, last_copy, loaded_textures,
                 failed_images,
                 next_texture, spawned, uploads, fail_inserts, missing_at_spawn, acquired,
                 first_ret, last_call, peak_outstanding, call_log>>

\* A search box that stores the text and leaves the list as it is.
SearchChangedStale(query, order) ==
  /\ query # search_query
  /\ order \in Orders(CategoryNames)
  /\ search_query' = query
  /\ UNCHANGED <<image_data, selected_category, filtered_images, selected_image,
                 show_all_categories, status_message, CacheVars, FrameVars, WorldVars,
                 HistoryVars>>

\* update, the search box: the text changed to `query`.
SearchChanged(query, order) ==
  /\ query # search_query
  /\ order \in Orders(CategoryNames)
  /\ search_query' = query
  /\ filtered_images' = UpdateFilteredImages(image_data, filtered_images, order, query,
                                             show_all_categories, selected_category)
  /\ UNCHANGED <<image_data, selected_category, selected_image, show_all_categories,
                 status_message, CacheVars, FrameVars, WorldVars, HistoryVars>>

\* update, the category selector: the entry clicked is the sentinel's (None)
\* or a category's (Some(name)); selectable_value stores the entry's text.
CategoryClicked(entry, order) ==
  /\ image_data # None
  /\ IF entry = None THEN TRUE ELSE entry[1] \in CategoryNames
  /\ order \in Orders(CategoryNames)
  /\ LET text == IF entry = None THEN AllCategories ELSE entry[1] IN
     /\ selected_category' = text
     /\ IF selected_category # text
          THEN /\ show_all_categories' = (text = AllCategories)
               /\ filtered_images' = UpdateFilteredImages(image_data, filtered_images, order,
                                                          search_query, text = AllCategories,
                                                          text)
          ELSE UNCHANGED <<show_all_categories, filtered_images>>
  /\ selector_entry' = entry
  /\ UNCHANGED <<image_data, search_query, selected_image, status_message, CacheVars,
                 FrameVars, WorldVars, missing_at_probe, last_copy>>

\* A Refresh that also empties the three tables of the cache.
RefreshClearingCache(order) ==
  /\ image_data # None
  /\ LET r == LoadImageData(disk_catalog, order, image_data, filtered_images, status_message,
                            search_query, show_all_categories, selected_category) IN
     /\ image_data' = r.image_data
     /\ filtered_images' = r.filtered_images
     /\ status_message' = r.status_message
  /\ loaded_textures' = <<>>
  /\ loading_promises' = <<>>
  /\ failed_images' = {}
  /\ UNCHANGED <<search_query, selected_category, selected_image, show_all_categories,
                 next_texture, spawned, uploads, fail_inserts, missing_at_spawn, acquired,
                 first_ret, last_call, peak_outstanding, call_log, FrameVars, WorldVars,
                 HistoryVars>>

\* update, the Refresh button, which is shown when a catalog is loaded.
Refresh(order) ==
  /\ image_data # None
  /\ LET r == LoadImageData(disk_catalog, order, image_data, filtered_images, status_message,
                            search_query, show_all_categories, selected_category) IN
     /\ image_data' = r.image_data
     /\ filtered_images' = r.filtered_images
     /\ status_message' = r.status_message
  /\ UNCHANGED <<search_query, selected_category, selected_image, show_all_categories,
                 CacheVars, FrameVars, WorldVars, HistoryVars>>

\* update, a row's Copy Image button.  The call does not return on a FIFO.
CopyRow(i, clipboard) ==
  /\ i \in 1..Len(filtered_images)
  /\ fs[PathOf(filtered_images[i])] # "fifo"
  /\ clipboard \in ClipboardKinds
  /\ status_message' = CopyImageToClipboard(status_message, fs[PathOf(filtered_images[i])],
                                            PathOf(filtered_images[i]), clipboard)
  /\ last_copy' = Some(CopyRecord(fs[PathOf(filtered_images[i])], PathOf(filtered_images[i]),
                                  clipboard))
  /\ UNCHANGED <<image_data, search_query, selected_category, filtered_images, selected_image,
                 show_all_categories, CacheVars, FrameVars, WorldVars, selector_entry,
                 missing_at_probe>>

\* update, the details window's Copy button.
CopyDetails(clipboard) ==
  /\ selected_image # None
  /\ fs[PathOf(selected_image[1])] # "fifo"
  /\ clipboard \in ClipboardKinds
  /\ status_message' = CopyImageToClipboard(status_message, fs[PathOf(selected_image[1])],
                                            PathOf(selected_image[1]), clipboard)
  /\ last_copy' = Some(CopyRecord(fs[PathOf(selected_image[1])], PathOf(selected_image[1]),
                                  clipboard))
  /\ UNCHANGED <<image_data, search_query, selected_category, filtered_images, selected_image,
                 show_all_categories, CacheVars, FrameVars, WorldVars, selector_entry,
                 missing_at_probe>>

\* update, a row's View Details button.
ViewDetails(i) ==
  /\ i \in 1..Len(filtered_images)
  /\ selected_image' = Some(filtered_images[i])
  /\ UNCHANGED <<image_data, search_query, selected_category, filtered_images,
                 show_all_categories, status_message, CacheVars, FrameVars, WorldVars,
                 HistoryVars>>

\* update, the details window's Close button.
CloseDetails ==
  /\ selected_image # None
  /\ selected_image' = None
  /\ UNCHANGED <<image_data, search_query, selected_category, filtered_images,
                 show_all_categories, status_message, CacheVars, FrameVars, WorldVars,
                 HistoryVars>>

\* ------------------------------------------------------------------------
\* The world: image files and image_list.json change under the program
\* ------------------------------------------------------------------------

MaxFsEvents == 1

FsChange(path, kind) ==
  /\ fs_events < MaxFsEvents
  /\ kind \in FileKinds
  /\ fs[path] # kind
  /\ fs' = [fs EXCEPT ![path] = kind]
  /\ fs_events' = fs_events + 1
  /\ UNCHANGED <<AppVars, CacheVars, FrameVars, disk_catalog, HistoryVars>>

DiskChange(disk) ==
  /\ disk # disk_catalog
  /\ disk_catalog' = disk
  /\ UNCHANGED <<AppVars, CacheVars, FrameVars, fs, fs_events, HistoryVars>>

\* ------------------------------------------------------------------------
\* Inputs: catalogs, queries, files
\* ------------------------------------------------------------------------

Nature == <<"N", "a", "t", "u", "r", "e">>
Urban == <<"U", "r", "b", "a", "n">>
Cats == <<"C", "a", "t", "s">>
Pets == <<"P", "e", "t", "s">>
LowerCats == <<"c", "a", "t", "s">>
GroupA == <<"A">>
GroupB == <<"B">>

\* {"Nature": [a.jpg, b.png], "Urban": [c.jpg]}
NatureUrban ==
  (Nature :> <<ImageInfo(<<"a", ".", "j", "p", "g">>, 1), ImageInfo(<<"b", ".", "p", "n", "g">>, 2)>>)
  @@ (Urban :> <<ImageInfo(<<"c", ".", "j", "p", "g">>, 3)>>)

\* {"cats": [dog.jpg], "Pets": [my_cat.png, cat_photo.png, bird.png]}
CatsCatalog ==
  (LowerCats :> <<ImageInfo(<<"d", "o", "g", ".", "j", "p", "g">>, 1)>>)
  @@ (Pets :> <<ImageInfo(<<"m", "y", "_", "c", "a", "t", ".", "p", "n", "g">>, 2),
                ImageInfo(<<"c", "a", "t", "_", "p", "h", "o", "t", "o", ".", "p", "n", "g">>, 3),
                ImageInfo(<<"b", "i", "r", "d", ".", "p", "n", "g">>, 4)>>)

\* Two categories that list the same file: cat_photo.png is path 1 in both.
SharedCatalog ==
  (Cats :> <<ImageInfo(<<"c", "a", "t", "_", "p", "h", "o", "t", "o", ".", "p", "n", "g">>, 1), ImageInfo(<<"M", "y", "_", "C", "a", "t", ".", "P", "N", "G">>, 2)>>)
  @@ (Pets :> <<ImageInfo(<<"c", "a", "t", "_", "p", "h", "o", "t", "o", ".", "p", "n", "g">>, 1)>>)

\* A catalog with a category whose name is the selector's sentinel text.
SentinelCatalog ==
  (AllCategories :> <<ImageInfo(<<"b", ".", "p", "n", "g">>, 1)>>)
  @@ (Urban :> <<ImageInfo(<<"c", ".", "j", "p", "g">>, 2), ImageInfo(<<"b", "u", "s", ".", "j", "p", "g">>, 3)>>)

\* How many images the second category of the two-category catalog has, past
\* the MAX_CONCURRENT_LOADS images of the first.
ExtraImages == 1

\* How many images the one-category catalog has.
BurstImages == 15

NumPaths ==
  IF BurstImages > MAX_CONCURRENT_LOADS + ExtraImages
    THEN BurstImages ELSE MAX_CONCURRENT_LOADS + ExtraImages

AllPaths == 1..NumPaths

\* The image of path i in the generated catalogs: img_a, img_b, ...
Numbered(i) == ImageInfo(<<"i", "m", "g", "_", Ascii[66 + i]>>, i)

\* Category A holds the paths 1..MAX_CONCURRENT_LOADS, category B the next
\* ExtraImages paths.
TwoGroups ==
  (GroupA :> [i \in 1..MAX_CONCURRENT_LOADS |-> Numbered(i)])
  @@ (GroupB :> [i \in 1..ExtraImages |-> Numbered(MAX_CONCURRENT_LOADS + i)])

\* One category of BurstImages images.
OneGroup == (GroupA :> [i \in 1..BurstImages |-> Numbered(i)])

Disk(catalog) == [readable |-> TRUE, json |-> Some(catalog)]
Unreadable == [readable |-> FALSE, json |-> None]
Malformed == [readable |-> TRUE, json |-> None]

\* Every path holds an RGBA image, but the paths of `kinds`.
Files(kinds) == [p \in AllPaths |-> IF p \in DOMAIN kinds THEN kinds[p] ELSE "rgba"]

\* ------------------------------------------------------------------------
\* Specifications
\* ------------------------------------------------------------------------

\* ImageSearchApp::default: the fields as constructed, then load_image_data.
InitWith(disks, filesystems) ==
  /\ disk_catalog \in disks
  /\ fs \in filesystems
  /\ fs_events = 0
  /\ search_query = <<>>
  /\ selected_category = AllCategories
  /\ selected_image = None
  /\ show_all_categories = TRUE
  /\ \E order \in Orders(IF disk_catalog.readable /\ disk_catalog.json # None
                           THEN DOMAIN disk_catalog.json[1] ELSE {}) :
       LET r == LoadImageData(disk_catalog, order, None, <<>>,
                              Status("Loading image list...", 0), <<>>, TRUE, AllCategories) IN
       /\ image_data = r.image_data
       /\ filtered_images = r.filtered_images
       /\ status_message = r.status_message
  /\ loaded_textures = <<>>
  /\ loading_promises = <<>>
  /\ failed_images = {}
  /\ next_texture = 0
  /\ spawned = [p \in AllPaths |-> 0]
  /\ uploads = [p \in AllPaths |-> 0]
  /\ fail_inserts = [p \in AllPaths |-> 0]
  /\ missing_at_spawn = {}
  /\ acquired = {}
  /\ first_ret = <<>>
  /\ last_call = None
  /\ peak_outstanding = 0
  /\ call_log = <<>>
  /\ frame_calls = <<>>
  /\ frame_from_empty = FALSE
  /\ frame_tick = FALSE
  /\ selector_entry = None
  /\ last_copy = None
  /\ missing_at_probe = {}

\* The categories of the catalog in image_list.json, when it parses.
DiskCategories ==
  IF disk_catalog.readable /\ disk_catalog.json # None THEN DOMAIN disk_catalog.json[1] ELSE {}

\* The application on a small catalog, one load_image_texture call at a time,
\* with the list, the details window, the filter and the Refresh button, and
\* the files changing under it.
SmallDisks == {Disk(SharedCatalog), Malformed}
SmallFiles == {Files((1 :> k) @@ (2 :> "corrupt")) : k \in {"missing", "rgba"}}
SmallKinds == {"missing", "rgba", "corrupt"}
SmallQueries == {<<>>, <<"m", "y">>}
SmallRows == 1..3

Init == InitWith(SmallDisks, SmallFiles)

Next ==
  \/ \E i \in SmallRows : RenderRow(i)
  \/ RenderDetails
  \/ \E p \in AllPaths : DecodeTask(p)
  \/ \E q \in SmallQueries : \E order \in Orders(CategoryNames) : SearchChanged(q, order)
  \/ \E c \in CategoryNames : \E order \in Orders(CategoryNames) :
       CategoryClicked(Some(c), order)
  \/ \E order \in Orders(CategoryNames) : CategoryClicked(None, order)
  \/ \E order \in Orders(DiskCategories) : Refresh(order)
  \/ \E i \in SmallRows : ViewDetails(i)
  \/ CloseDetails
  \/ \E k \in SmallKinds : FsChange(1, k)

Spec == Init /\ [][Next]_vars

\* How many of the first category's files are regular files; the others are
\* FIFOs, whose decode threads never finish, as are the files of the second
\* category but its first.
FastImages == 2

\* The application on the two-category catalog, one whole frame at a time:
\* every row of the list is visible, the decode threads finish between the
\* frames in any order, and the user switches between the categories (the
\* HashMap iterating in the order A, B; the sort makes the order immaterial).  The
\* file of path 2 is missing and the files of the paths 4, 8, ... are corrupt.
MixedKind(p) == IF p = 2 THEN "missing" ELSE IF p % 4 = 0 THEN "corrupt" ELSE "rgba"

CeilingFiles ==
  [p \in AllPaths |->
     IF p > FastImages /\ p # MAX_CONCURRENT_LOADS + 1 THEN "fifo" ELSE MixedKind(p)]

BurstFiles == [p \in AllPaths |-> MixedKind(p)]

InitCeiling == InitWith({Disk(TwoGroups)}, {CeilingFiles})

NextCeiling ==
  \/ RenderFrame(1, Len(filtered_images))
  \/ \E p \in AllPaths : DecodeTask(p)
  \/ \E c \in CategoryNames : CategoryClicked(Some(c), <<GroupA, GroupB>>)
  \/ CategoryClicked(None, <<GroupA, GroupB>>)

SpecCeiling == InitCeiling /\ [][NextCeiling]_vars

\* The application on the one-category catalog, from the empty cache: one
\* frame that shows any range of rows, then the decode threads.
CacheEmpty ==
  /\ DOMAIN loaded_textures = {}
  /\ DOMAIN loading_promises = {}
  /\ failed_images = {}

InitBurst == InitWith({Disk(OneGroup)}, {BurstFiles})

NextBurst ==
  \/ \E lo \in 1..BurstImages : \E hi \in lo..BurstImages : CacheEmpty /\ RenderFrame(lo, hi)
  \/ \E p \in AllPaths : DecodeTask(p)

SpecBurst == InitBurst /\ [][NextBurst]_vars

\* The application on the two-category catalog with every file a regular
\* file: frames follow one another for ever, each showing every row of the
\* list, every decode thread finishes (here the threads finish in the order
\* of their paths), and the user may pick the second category.
LiveFiles == [p \in AllPaths |-> MixedKind(p)]

DecodeInOrder(path) ==
  /\ \A q \in DOMAIN loading_promises : q < path => loading_promises[q] # Running
  /\ DecodeTask(path)

\* A whole frame takes place: no other step flips frame_tick.
FrameStep == frame_tick' = ~frame_tick

InitLive == InitWith({Disk(TwoGroups)}, {LiveFiles})

NextLive ==
  \/ RenderFrame(1, Len(filtered_images))
  \/ \E p \in AllPaths : DecodeInOrder(p)
  \/ \E order \in Orders(CategoryNames) : CategoryClicked(Some(GroupB), order)

SpecLive ==
  /\ InitLive
  /\ [][NextLive]_vars
  /\ WF_frame_tick(FrameStep)
  /\ WF_vars(\E p \in AllPaths : DecodeInOrder(p))

\* The filter engine and the catalog loader, without the thumbnail cache: the
\* user types, picks categories and refreshes while image_list.json changes.
FilterDisks ==
  {Disk(NatureUrban), Disk(SentinelCatalog), Disk(SharedCatalog), Disk(CatsCatalog),
   Unreadable, Malformed}
FilterQueries == {<<>>, <<"b">>, <<"c", "a", "t">>, <<"C", "A", "T">>}

InitFilter == InitWith(FilterDisks, {Files(<<>>)})

NextFilter ==
  \/ \E q \in FilterQueries : \E order \in Orders(CategoryNames) : SearchChanged(q, order)
  \/ \E c \in CategoryNames : \E order \in Orders(CategoryNames) :
       CategoryClicked(Some(c), order)
  \/ \E order \in Orders(CategoryNames) : CategoryClicked(None, order)
  \/ \E order \in Orders(DiskCategories) : Refresh(order)
  \/ \E disk \in FilterDisks : DiskChange(disk)

SpecFilter == InitFilter /\ [][NextFilter]_vars

\* Every kind of event of update on one catalog: the thumbnail of one image
\* is loaded while the user types, picks categories, reloads a catalog file
\* that changes, and copies the rows, whatever the files and the clipboard do.
EventDisks == {Disk(CatsCatalog), Unreadable, Malformed}
EventFiles ==
  {Files((1 :> "missing") @@ (2 :> "unreadable") @@ (3 :> "corrupt") @@ (4 :> "rgb")),
   Files(<<>>)}
EventQueries == {<<>>, <<"c", "a", "t">>}
EventPath == 3

InitEvents == InitWith(EventDisks, EventFiles)

NextEvents ==
  \/ \E i \in 1..Len(filtered_images) : PathOf(filtered_images[i]) = EventPath /\ RenderRow(i)
  \/ DecodeTask(EventPath)
  \/ \E q \in EventQueries : \E order \in Orders(CategoryNames) : SearchChanged(q, order)
  \/ \E c \in CategoryNames : \E order \in Orders(CategoryNames) :
       CategoryClicked(Some(c), order)
  \/ \E order \in Orders(CategoryNames) : CategoryClicked(None, order)
  \/ \E order \in Orders(DiskCategories) : Refresh(order)
  \/ \E disk \in EventDisks : DiskChange(disk)
  \/ \E i \in 1..Len(filtered_images) : \E clipboard \in ClipboardKinds : CopyRow(i, clipboard)

SpecEvents == InitEvents /\ [][NextEvents]_vars

\* ------------------------------------------------------------------------
\* Properties of the thumbnail cache, one call at a time (Spec)
\* ------------------------------------------------------------------------

Ready(p) == p \in DOMAIN loaded_textures
Pending(p) == p \in DOMAIN loading_promises
Failed(p) == p \in failed_images
Absent(p) == ~Ready(p) /\ ~Pending(p) /\ ~Failed(p)

\* C2: every path is in at most one of loaded_textures, loading_promises and
\* failed_images.
C2_AtMostOneTable ==
  \A p \in AllPaths :
    /\ ~(Ready(p) /\ Pending(p))
    /\ ~(Ready(p) /\ Failed(p))
    /\ ~(Pending(p) /\ Failed(p))

\* A path is ready, another has failed, and calls went on after that.
C2_Witness ==
  /\ \E p \in AllPaths : Ready(p)
  /\ \E p \in AllPaths : Failed(p)
  /\ last_call # None
  /\ last_call[1].before = "Ready"

IsCall(p) == \E c \in {Call(Fresh, fs, p)} : SetCache(c)

\* C4: a call for a path that is ready or failed returns what the call that
\* resolved the path returned (the handle, or None), spawns no thread,
\* uploads no texture and leaves the three tables as they are.
C4_ResolvedCallIsIdempotent ==
  [][\A p \in AllPaths :
       (Ready(p) \/ Failed(p)) /\ IsCall(p) =>
         /\ last_call'[1].ret = first_ret[p]
         /\ (Ready(p) => last_call'[1].ret = Some(loaded_textures[p]))
         /\ (Failed(p) => last_call'[1].ret = None)
         /\ spawned' = spawned
         /\ uploads' = uploads
         /\ next_texture' = next_texture
         /\ loaded_textures' = loaded_textures
         /\ loading_promises' = loading_promises
         /\ failed_images' = failed_images]_vars

\* The last call was for a ready path while another path had failed.
C4_Witness ==
  /\ last_call # None
  /\ last_call[1].before = "Ready"
  /\ last_call[1].ret # None
  /\ failed_images # {}

\* C5 as stated: a path whose file was missing when its thread was spawned is
\* never ready.
C5_MissingAtSpawnNeverReady == \A p \in missing_at_spawn : ~Ready(p)

\* C5: a path whose file was missing when its decode thread looked for it
\* has a promise that resolved to None or is failed, and is never ready,
\* whatever happens to the file afterwards.
C5_MissingAtProbeNeverReady ==
  \A p \in missing_at_probe :
    /\ ~Ready(p)
    /\ Pending(p) \/ Failed(p)
    /\ Pending(p) => loading_promises[p] = Some(None)

\* The file was missing when the thread looked, it exists now, and the path
\* has failed and was asked for again.
C5_Witness ==
  \E p \in missing_at_probe :
    /\ fs[p] = "rgba"
    /\ Failed(p)
    /\ last_call # None
    /\ last_call[1].path = p
    /\ last_call[1].before = "Failed"

\* C6: no path ever has more than one decode thread spawned for it.
C6_OneTaskPerPath == \A p \in AllPaths : spawned[p] <= 1

\* Path 1, listed by two categories, has had its one thread; it is shown as
\* the row of the second category and in the details window, and the last
\* call for it found it ready.
C6_Witness ==
  /\ spawned[1] = 1
  /\ selected_category = Pets
  /\ Len(filtered_images) = 1
  /\ selected_image # None
  /\ selected_image[1][1] = Cats
  /\ PathOf(selected_image[1]) = 1
  /\ last_call # None
  /\ last_call[1].path = 1
  /\ last_call[1].before = "Ready"

\* C7: a path's texture is uploaded at most once and the path is inserted
\* into failed_images at most once, never both, and the call that does
\* either leaves the path out of loading_promises.
C7_ResolvedOnce ==
  /\ \A p \in AllPaths : uploads[p] + fail_inserts[p] <= 1
  /\ \A p \in AllPaths : (uploads[p] = 1) = Ready(p)
  /\ \A p \in AllPaths : (fail_inserts[p] = 1) = Failed(p)
  /\ \A p \in AllPaths : uploads[p] + fail_inserts[p] = 1 => ~Pending(p)

\* One path was uploaded, the other was recorded as failed, and the calls
\* went on.
C7_Witness ==
  /\ \E p \in AllPaths : uploads[p] = 1
  /\ \E p \in AllPaths : fail_inserts[p] = 1
  /\ last_call # None
  /\ last_call[1].before \in {"Ready", "Failed"}

\* ------------------------------------------------------------------------
\* Properties of the concurrency ceiling (SpecCeiling, SpecBurst)
\* ------------------------------------------------------------------------

\* C1: loading_promises never has more than MAX_CONCURRENT_LOADS entries,
\* after every load_image_texture call of every frame and after every decode
\* thread's completion, frames of more than MAX_CONCURRENT_LOADS new paths
\* included.
C1_AtMostTenOutstanding ==
  /\ Cardinality(DOMAIN loading_promises) <= MAX_CONCURRENT_LOADS
  /\ peak_outstanding <= MAX_CONCURRENT_LOADS

\* A frame of more than MAX_CONCURRENT_LOADS paths has filled the table, and
\* its last call, for a path in no table, was turned away.
C1_Witness ==
  /\ Len(frame_calls) > MAX_CONCURRENT_LOADS
  /\ Cardinality(DOMAIN loading_promises) = MAX_CONCURRENT_LOADS
  /\ last_call # None
  /\ last_call[1].before = "Absent"
  /\ last_call[1].outstanding = MAX_CONCURRENT_LOADS
  /\ ~last_call[1].spawn
  /\ Absent(last_call[1].path)

Min(a, b) == IF a < b THEN a ELSE b

\* No decode thread has finished since the last frame.
NoneFinished == \A p \in DOMAIN loading_promises : loading_promises[p] = Running

\* C8: after a frame that began with the three tables empty and called
\* load_image_texture for n different paths, while no decode thread has
\* finished, the first min(n, MAX_CONCURRENT_LOADS) paths of the frame are
\* Pending and the others Absent; of 15 paths 10 are Pending and 5 Absent.
C8_BurstFillsToCeiling ==
  (frame_from_empty /\ NoneFinished) =>
    LET n == Len(frame_calls) IN
    /\ \A i \in 1..n :
         IF i <= MAX_CONCURRENT_LOADS
           THEN Pending(frame_calls[i]) /\ spawned[frame_calls[i]] = 1
           ELSE Absent(frame_calls[i]) /\ spawned[frame_calls[i]] = 0
    /\ Cardinality({p \in AllPaths : Pending(p)}) = Min(n, MAX_CONCURRENT_LOADS)
    /\ Cardinality({frame_calls[i] : i \in 1..n} \ DOMAIN loading_promises)
         = n - Min(n, MAX_CONCURRENT_LOADS)
    /\ n = 15 => /\ Cardinality({p \in AllPaths : Pending(p)}) = 10
                 /\ Cardinality({p \in AllPaths : p \in acquired /\ Absent(p)}) = 5

\* The frame of 15 different paths from the empty cache has just run.
C8_Witness ==
  /\ frame_from_empty
  /\ NoneFinished
  /\ Len(frame_calls) = 15
  /\ Cardinality({frame_calls[i] : i \in 1..15}) = 15
  /\ Cardinality(DOMAIN loading_promises) = 10

\* ------------------------------------------------------------------------
\* Properties of the filter engine (SpecFilter)
\* ------------------------------------------------------------------------

Query_b == <<"b">>
Pair_Nature_b == <<Nature, NatureUrban[Nature][2]>>
Pair_Urban_c == <<Urban, NatureUrban[Urban][1]>>

\* The catalog is Nature: a.jpg, b.png and Urban: c.jpg, the query is b and
\* every category is in scope.
NatureUrbanQueryB ==
  /\ image_data = Some(NatureUrban)
  /\ search_query = Query_b
  /\ show_all_categories
  /\ selected_category = AllCategories

\* C9, as claimed: the list is then exactly [(Nature, b.png)].
C9_OnlyNatureB == NatureUrbanQueryB => filtered_images = <<Pair_Nature_b>>

\* C9: the list is then exactly [(Nature, b.png), (Urban, c.jpg)]: the
\* lower-cased category name urban contains the query b, so Urban's image is
\* listed as well.
C9_NatureBAndUrbanC == NatureUrbanQueryB => filtered_images = <<Pair_Nature_b, Pair_Urban_c>>

C9_Witness == NatureUrbanQueryB /\ filtered_images = <<Pair_Nature_b, Pair_Urban_c>>

\* C10, as claimed: when the entry last clicked in the category selector is a
\* category's, filtered_images has no pair of another category, whatever the
\* catalog's category names and the query.
C10_OnlySelectedCategory ==
  selector_entry # None =>
    \A i \in 1..Len(filtered_images) : filtered_images[i][1] = selector_entry[1]

\* The (category, image) pairs of the loaded catalog.
CatalogPairs ==
  IF image_data = None THEN {}
  ELSE UNION {{<<c, image_data[1][c][j]>> : j \in 1..Len(image_data[1][c])} :
                c \in CategoryNames}

\* How many images the loaded catalog lists, the categories counted from the set S.
RECURSIVE CountImages(_)
CountImages(S) ==
  IF S = {} THEN 0
  ELSE LET c == CHOOSE x \in S : TRUE IN Len(image_data[1][c]) + CountImages(S \ {c})

\* The list is in the order of (category name, filename), byte by byte.
InOrder(list) ==
  \A i \in 1..Len(list) : \A j \in (i + 1)..Len(list) :
    \/ StrCmp(list[i][1], list[j][1]) < 0
    \/ /\ list[i][1] = list[j][1]
       /\ StrCmp(list[i][2].filename, list[j][2].filename) <= 0

\* The query is empty and every category is in scope.
EmptyQueryAllCategories ==
  /\ image_data # None
  /\ search_query = <<>>
  /\ show_all_categories
  /\ selected_category = AllCategories

\* C11: with the empty query and the selector on all categories,
\* filtered_images lists every (category, image) pair of the catalog exactly
\* once, in the order of category name and then filename.
C11_EmptyQueryListsAll ==
  EmptyQueryAllCategories =>
    /\ {filtered_images[i] : i \in 1..Len(filtered_images)} = CatalogPairs
    /\ Len(filtered_images) = CountImages(CategoryNames)
    /\ InOrder(filtered_images)

\* The catalog whose images are listed out of order (Urban: c.jpg, bus.jpg) is
\* loaded and shown whole, bus.jpg before c.jpg.
C11_Witness ==
  /\ EmptyQueryAllCategories
  /\ image_data = Some(SentinelCatalog)
  /\ Len(filtered_images) = 3
  /\ filtered_images[2] = <<Urban, SentinelCatalog[Urban][2]>>
  /\ filtered_images[3] = <<Urban, SentinelCatalog[Urban][1]>>

Query_cat == <<"c", "a", "t">>
Query_CAT == <<"C", "A", "T">>

\* The pairs in filtered_images.
Listed == {filtered_images[i] : i \in 1..Len(filtered_images)}

\* What the query cat, in either case, lists of the catalog cats: dog.jpg and
\* Pets: my_cat.png, cat_photo.png, bird.png.
CatMatches ==
  <<<<Pets, CatsCatalog[Pets][2]>>, <<Pets, CatsCatalog[Pets][1]>>,
    <<LowerCats, CatsCatalog[LowerCats][1]>>>>

\* C12: for a query that is not empty, a pair of a category in scope is in
\* filtered_images exactly when the lower-cased filename or the lower-cased
\* category name contains the lower-cased query.  The query cat, in lower or
\* upper case, lists cat_photo.png, my_cat.png and the image of the category
\* cats, but not bird.png; it lists My_Cat.PNG of the category Cats too.
C12_MatchRule ==
  /\ (image_data # None /\ search_query # <<>>) =>
       \A pair \in CatalogPairs :
         (show_all_categories \/ selected_category = pair[1]) =>
           (pair \in Listed <=>
              \/ Contains(ToLowercase(pair[2].filename), ToLowercase(search_query))
              \/ Contains(ToLowercase(pair[1]), ToLowercase(search_query)))
  /\ (/\ image_data = Some(CatsCatalog)
      /\ search_query \in {Query_cat, Query_CAT}
      /\ show_all_categories) => filtered_images = CatMatches
  /\ (/\ image_data = Some(SharedCatalog)
      /\ search_query \in {Query_cat, Query_CAT}
      /\ show_all_categories) => <<Cats, SharedCatalog[Cats][2]>> \in Listed

\* The query CAT has been typed over the catalog with the category cats.
C12_Witness ==
  /\ image_data = Some(CatsCatalog)
  /\ search_query = Query_CAT
  /\ show_all_categories
  /\ filtered_images = CatMatches

\* ------------------------------------------------------------------------
\* Properties of the events of update (SpecEvents)
\* ------------------------------------------------------------------------

\* The messages copy_image_to_clipboard has for a failure.
FailureMessages ==
  {"Image file not found: {}", "Failed to access clipboard: {}",
   "Failed to copy to clipboard: {}"}

\* C13, as claimed: a copy_image_to_clipboard call that does not put the image
\* on the clipboard assigns a failure message to status_message.
C13_EveryFailureReported ==
  (last_copy # None /\ ~last_copy[1].ok) =>
    (last_copy[1].wrote /\ last_copy[1].message \in FailureMessages)

\* The three tables: the textures, the paths that have a promise, the failures.
Tables == <<loaded_textures, DOMAIN loading_promises, failed_images>>

\* C14: a step that changes loaded_textures, the paths of loading_promises or
\* failed_images is a load_image_texture call, and changes nothing of the
\* catalog, the filter, the status message or the record of the last copy; so
\* a reload, a change of query or category and a copy, successful or not,
\* leave the three tables as they are.
C14_OnlyLoadImageTextureChangesTables ==
  [][Tables' # Tables =>
       /\ \E p \in AllPaths : IsCall(p)
       /\ UNCHANGED <<AppVars, WorldVars, HistoryVars>>]_vars

\* The thumbnail is in the cache (uploaded, or failed) while the query and the
\* category have been changed, a copy has failed, and a reload has failed.
C14_Witness ==
  /\ Ready(EventPath) \/ Failed(EventPath)
  /\ search_query # <<>>
  /\ selector_entry # None
  /\ last_copy # None
  /\ ~last_copy[1].ok
  /\ status_message.kind \in {"Error parsing JSON: {}",
                               "Error: Could not read image_list.json from: {}"}

\* ------------------------------------------------------------------------
\* Properties of the catalog loader and the displayed list (SpecFilter)
\* ------------------------------------------------------------------------

\* The diagnostics of load_image_data.
LoadErrors ==
  {"Error parsing JSON: {}", "Error: Could not read image_list.json from: {}"}

\* image_list.json cannot be read or does not parse.
DiskFails == ~(disk_catalog.readable /\ disk_catalog.json # None)

\* C15: a load_image_data call that fails, because image_list.json is
\* unreadable or malformed, leaves image_data and filtered_images as they were
\* and assigns a diagnostic to status_message and nothing else: at startup the
\* constructed values (no catalog, the empty list) stay, on a reload the
\* catalog and the list loaded before; every event is possible afterwards.
C15_FailedLoadLeavesState ==
  /\ [](image_data = None =>
         /\ filtered_images = <<>>
         /\ status_message.kind \in LoadErrors
         /\ ENABLED (\E q \in FilterQueries : SearchChanged(q, <<>>)))
  /\ [][(DiskFails /\ Refresh(<<>>)) =>
          /\ image_data' = image_data
          /\ filtered_images' = filtered_images
          /\ status_message'.kind = IF disk_catalog.readable
                                      THEN "Error parsing JSON: {}"
                                      ELSE "Error: Could not read image_list.json from: {}"
          /\ UNCHANGED <<search_query, selected_category, selected_image, show_all_categories,
                         CacheVars, FrameVars, WorldVars, HistoryVars>>]_vars

\* A reload has failed and the catalog and the list loaded before are kept.
C15_Witness ==
  /\ image_data # None
  /\ DiskFails
  /\ status_message.kind \in LoadErrors
  /\ filtered_images # <<>>

\* C16: a path that was never passed to load_image_texture is in none of the
\* three tables, and no decode thread was spawned and no texture uploaded for
\* it, whatever catalog was loaded or reloaded, whatever was filtered and
\* whatever rows were copied.
C16_NeverAcquiredNeverCached ==
  \A p \in AllPaths \ acquired :
    /\ Absent(p)
    /\ spawned[p] = 0
    /\ uploads[p] = 0
    /\ fail_inserts[p] = 0

\* The catalog lists four paths and one of them was acquired and resolved;
\* another, never acquired, is listed and was copied.
C16_Witness ==
  /\ acquired = {EventPath}
  /\ ~Absent(EventPath)
  /\ Len(filtered_images) = 4
  /\ last_copy # None
  /\ status_message = Status("Copied {} to clipboard", 4)

\* ------------------------------------------------------------------------
\* Progress of the thumbnails (SpecLive)
\* ------------------------------------------------------------------------

\* The path p has a row in the list, so every frame calls load_image_texture
\* for it.
InView(p) == \E i \in 1..Len(filtered_images) : PathOf(filtered_images[i]) = p

\* C17, as claimed: when every decode thread finishes, a path for which every
\* frame from some frame on calls load_image_texture is ready or failed in the
\* end, whether or not the paths acquired before it are acquired again.
C17_AcquiredEveryFrameResolves ==
  \A p \in AllPaths : (<>[]InView(p)) => <>(Ready(p) \/ Failed(p))

\* ------------------------------------------------------------------------
\* Properties of single calls within whole frames (SpecCeiling)
\* ------------------------------------------------------------------------

\* The records of the calls of the last frame.
Logged == {call_log[i] : i \in 1..Len(call_log)}

\* C18: a call for a path in no table, made while loading_promises has
\* MAX_CONCURRENT_LOADS entries or more, returns None, spawns no thread, asks
\* for no repaint and changes no table; made while it has fewer, the call
\* spawns one thread for the path, enters the path in loading_promises, asks
\* for a repaint and returns None.
C18_AbsentCall ==
  \A r \in Logged :
    r.before = "Absent" =>
      IF r.outstanding >= MAX_CONCURRENT_LOADS
        THEN /\ r.ret = None
             /\ ~r.spawn
             /\ ~r.repaint
             /\ ~r.changed
             /\ ~r.pending_after /\ ~r.ready_after /\ ~r.failed_after
        ELSE /\ r.ret = None
             /\ r.spawn
             /\ spawned[r.path] = 1
             /\ r.repaint
             /\ r.pending_after /\ ~r.ready_after /\ ~r.failed_after

\* One frame called for a path in no table below the ceiling and for another
\* at the ceiling.
C18_Witness ==
  /\ \E r \in Logged : r.before = "Absent" /\ r.outstanding < MAX_CONCURRENT_LOADS /\ r.spawn
  /\ \E r \in Logged : r.before = "Absent" /\ r.outstanding = MAX_CONCURRENT_LOADS /\ ~r.spawn

\* C19: a call for a path that has a promise: when the thread has finished
\* with a bitmap, the path is in loaded_textures and no longer in
\* loading_promises after the call, which returns the handle; when it has
\* finished with no bitmap, the path is in failed_images and no longer in
\* loading_promises, and the call returns None; when it has not finished, the
\* call returns None at once, asks for a repaint and changes no table.
C19_PendingCall ==
  \A r \in Logged :
    r.before = "Pending" =>
      IF r.promise[1] = Running
        THEN /\ r.ret = None
             /\ r.repaint
             /\ ~r.changed
             /\ r.pending_after /\ ~r.ready_after /\ ~r.failed_after
      ELSE IF r.promise[1][1] # None
        THEN /\ r.ready_after /\ ~r.pending_after /\ ~r.failed_after
             /\ r.upload
             /\ r.ret # None
             /\ Ready(r.path)
             /\ r.ret = Some(loaded_textures[r.path])
        ELSE /\ r.failed_after /\ ~r.pending_after /\ ~r.ready_after
             /\ r.fail
             /\ r.ret = None
             /\ Failed(r.path)

\* One frame called for a path whose thread had finished with a bitmap, for
\* one whose thread had finished without, and for one whose thread was running.
C19_Witness ==
  /\ \E r \in Logged : r.before = "Pending" /\ r.promise[1] = Running
  /\ \E r \in Logged : r.before = "Pending" /\ r.promise[1] = Some(None) /\ r.failed_after
  /\ \E r \in Logged :
       r.before = "Pending" /\ r.promise[1] # Running /\ r.promise[1] # Some(None)
       /\ r.ready_after

\* C20: filtered_images is always the list update_filtered_images computes
\* from the catalog in image_data, the text in search_query and the entry in
\* selected_category as they are now, and it is empty while no catalog is
\* loaded: no query edit, category selection or reload, successful or failed,
\* leaves an older list on display.
C20_ListNeverStale ==
  /\ image_data = None => filtered_images = <<>>
  /\ image_data # None =>
       /\ show_all_categories = (selected_category = AllCategories)
       /\ \E order \in Orders(CategoryNames) :
            filtered_images = UpdateFilteredImages(image_data, <<>>, order, search_query,
                                                   selected_category = AllCategories,
                                                   selected_category)
       /\ \A pair \in CatalogPairs :
            pair \in Listed <=>
              /\ selected_category = AllCategories \/ selected_category = pair[1]
              /\ \/ search_query = <<>>
                 \/ Contains(ToLowercase(pair[2].filename), ToLowercase(search_query))
                 \/ Contains(ToLowercase(pair[1]), ToLowercase(search_query))
       /\ Listed \subseteq CatalogPairs
       /\ InOrder(filtered_images)

\* A category is selected and a query typed, and the reload of a catalog file
\* that no longer parses has failed: the list is that of the catalog in memory.
C20_Witness ==
  /\ image_data # None
  /\ DiskFails
  /\ status_message.kind \in LoadErrors
  /\ search_query # <<>>
  /\ selected_category # AllCategories
  /\ Len(filtered_images) > 0
  /\ Len(filtered_images) < Cardinality(CatalogPairs)

\* ------------------------------------------------------------------------
\* Release of the entries of loading_promises (SpecCeiling)
\* ------------------------------------------------------------------------

\* The paths for which the frame that ends in the next state called
\* load_image_texture.
CalledNext == {frame_calls'[i] : i \in 1..Len(frame_calls')}

\* The number of entries of loading_promises after the i-th call of the last
\* frame: what the next call found, or what the table holds since.
SizeAfter(i) ==
  IF i < Len(call_log) THEN call_log[i + 1].outstanding
  ELSE Cardinality(DOMAIN loading_promises)

\* C21: an entry leaves loading_promises only in a load_image_texture call for
\* its own path made after its thread finished.  A call lowers the number of
\* entries by one at most, and only when it is for a path whose promise has
\* resolved; the completion of a decode thread changes the promise and leaves
\* the paths of the table as they are; a frame that calls for other paths
\* only leaves every entry in place, finished or not; and a frame that finds
\* MAX_CONCURRENT_LOADS entries, none of them for a path it calls for, spawns
\* nothing, whether or not threads of those entries have finished.
C21_ReleasedOnlyByOwnCall ==
  /\ [](\A i \in 1..Len(call_log) :
          /\ SizeAfter(i) >= call_log[i].outstanding - 1
          /\ SizeAfter(i) < call_log[i].outstanding =>
               /\ call_log[i].before = "Pending"
               /\ call_log[i].promise # None
               /\ call_log[i].promise[1] # Running
               /\ ~call_log[i].pending_after)
  /\ [][/\ \A p \in AllPaths :
            /\ Pending(p) /\ ~Pending(p)' =>
                 /\ frame_tick' # frame_tick
                 /\ p \in CalledNext
                 /\ loading_promises[p] # Running
                 /\ \E r \in Logged' :
                      r.path = p /\ r.before = "Pending" /\ ~r.pending_after
            /\ Pending(p) /\ ~(frame_tick' # frame_tick /\ p \in CalledNext) =>
                 /\ Pending(p)'
                 /\ loading_promises[p] # Running => loading_promises'[p] = loading_promises[p]
        /\ (\E p \in AllPaths : DecodeTask(p)) =>
             /\ DOMAIN loading_promises' = DOMAIN loading_promises
             /\ loading_promises' # loading_promises
        /\ (/\ frame_tick' # frame_tick
            /\ Cardinality(DOMAIN loading_promises) >= MAX_CONCURRENT_LOADS
            /\ CalledNext \cap DOMAIN loading_promises = {}) =>
             /\ loading_promises' = loading_promises
             /\ spawned' = spawned]_vars

\* The first category's frame filled the table, one of its threads finished,
\* and the frame of the second category, which calls for none of the first's
\* paths, had its call turned away at MAX_CONCURRENT_LOADS entries: the
\* finished promise is still in the table.
C21_Witness ==
  /\ selected_category = GroupB
  /\ Cardinality(DOMAIN loading_promises) = MAX_CONCURRENT_LOADS
  /\ \E q \in DOMAIN loading_promises :
       /\ loading_promises[q] # Running
       /\ \A r \in Logged : r.path # q
  /\ \E r \in Logged :
       /\ r.before = "Absent"
       /\ r.outstanding = MAX_CONCURRENT_LOADS
       /\ ~r.spawn
       /\ Absent(r.path)

====
